---- MODULE Spec2Model ----
(***************************************************************************)
(* Device kernels of the tensor library's GPU backend:                     *)
(*   - 2D pooling (avg / max / min), forward and backward                  *)
(*     (src/src/tensor_ops/div/binary_div.cu, lines 63-439);               *)
(*   - binary_div_backward with its float atomicAdd accumulation           *)
(*     (src/src/tensor_ops/div/binary_div.cu, lines 29-61);                *)
(*   - the 16-bit atomicCAS / __half atomicAdd compatibility shim          *)
(*     (src/unnamed/part_001, lines 25-52).                                *)
(*                                                                         *)
(* Floating-point values are modelled as exact rationals <<n, d>> in       *)
(* lowest terms with d >= 0; d = 0 stands for +/-INFINITY.  All inputs are *)
(* small integers, so every float sum in the kernels is exact and the      *)
(* correctly rounded division keeps equality and order of the quotients    *)
(* that are compared.  size_t arithmetic is 64 bits wide: with the small   *)
(* values used here no multiplication or addition wraps, and every         *)
(* subtraction in the kernels is guarded by the comparison that precedes   *)
(* it in the source.                                                       *)
(***************************************************************************)
EXTENDS Integers, Sequences, FiniteSets, TLC

(***************************************************************************)
(* Bounds of the pooling model.                                            *)
(***************************************************************************)
MaxKernel == 2
MaxStride == 2
MaxPadding == 1
MaxIn == 2
MaxOut == 2
MaxVal == 1
MaxGradBase == 1
MaxChan == 1
ExtraThreads == 1

VARIABLES
  kind,         \* which kernel pair is launched: "avg", "max" or "min"
  op,           \* the Pool2dOp descriptor
  inp_strides,  \* 4 strides of inp / grad_inp
  out_strides,  \* 4 strides of out / grad_out
  inp,          \* input storage
  out,          \* output storage
  grad_out,     \* gradient of the output, co-indexed with out
  grad_inp,     \* gradient of the input, co-indexed with inp
  grad_inp0,    \* grad_inp as it was before the backward launch (history)
  fpc,          \* forward thread -> "ready" | "done"
  bpc,          \* backward thread -> "ready" | "read" | "done"
  breg,         \* backward thread -> [old, add]: the registers of grad_inp[i] += ...
  fvis,         \* forward thread -> the loads its loop reached, in order (history)
  bvis,         \* backward thread -> the loads its loop reached, in order (history)
  bwrote        \* backward thread -> set of grad_inp indices it has stored to (history)

poolVars == <<kind, op, inp_strides, out_strides, inp, out, grad_out, grad_inp,
              grad_inp0, fpc, bpc, breg, fvis, bvis, bwrote>>

VARIABLES
  dims,            \* binary_div_backward: the logical shape (num_dims = 2)
  lhs_strides,     \* strides of lhs / grad_lhs
  rhs_strides,     \* strides of rhs / grad_rhs
  div_out_strides, \* strides of grad_out
  lhs,             \* lhs storage
  rhs,             \* rhs storage
  div_grad_out,    \* grad_out storage
  grad_lhs,        \* gradient of lhs, accumulated into
  grad_rhs,        \* gradient of rhs, accumulated into
  grad_lhs0,       \* grad_lhs before the launch (history)
  grad_rhs0,       \* grad_rhs before the launch (history)
  dpc              \* thread -> "ready" | "lhs_added" | "done"

VARIABLES
  word,      \* the aligned 32-bit word holding the two __half values
  word0,     \* the word before any call (history)
  haddr,     \* thread -> (size_t) address & 2 of its atomicAdd call: 0 or 2
  hval,      \* thread -> the __half val it adds
  hpc,       \* thread -> "start" | "call" | "cas" | "done"
  hold,      \* thread -> atomicAdd's local old
  hassumed,  \* thread -> atomicAdd's local assumed
  hother,    \* thread -> atomicCAS's local other_short
  hret,      \* thread -> the bits atomicAdd returned
  hiter,     \* thread -> iterations of the do-while loop so far (history)
  hsolo      \* thread -> no other thread has stored to the word during the call (history)

halfVars == <<word, word0, haddr, hval, hpc, hold, hassumed, hother, hret, hiter, hsolo>>

divVars == <<dims, lhs_strides, rhs_strides, div_out_strides, lhs, rhs, div_grad_out,
             grad_lhs, grad_rhs, grad_lhs0, grad_rhs0, dpc>>

(***************************************************************************)
(* Exact rationals standing for the float / double values.                 *)
(***************************************************************************)
Abs(n) == IF n < 0 THEN -n ELSE n

RECURSIVE Gcd(_, _)
Gcd(a, b) == IF b = 0 THEN a ELSE Gcd(b, a % b)

RNorm(r) ==
  IF r[2] = 0 THEN <<(IF r[1] < 0 THEN -1 ELSE 1), 0>>
  ELSE LET g == Gcd(Abs(r[1]), r[2])
       IN  IF g = 0 THEN <<0, 1>> ELSE <<r[1] \div g, r[2] \div g>>

R(n) == <<n, 1>>
RAdd(a, b) == RNorm(<<a[1] * b[2] + b[1] * a[2], a[2] * b[2]>>)
RDiv(a, n) == RNorm(<<a[1], a[2] * n>>)
RLess(a, b) == a[1] * b[2] < b[1] * a[2]

\* -INFINITY and INFINITY, the seeds of the max and min reductions
NegInfinity == <<-1, 0>>
PosInfinity == <<1, 0>>

\* fmaxf / fmax and fminf / fmin on non-NaN values
maxNonAtomic(a, b) == IF RLess(a, b) THEN b ELSE a
minNonAtomic(a, b) == IF RLess(b, a) THEN b ELSE a

(***************************************************************************)
(* Pool2dOp and the index arithmetic shared by the six pooling kernels.    *)
(***************************************************************************)
Pool2dOp(k, s, p, b, c, hi, ho, wi, wo) ==
  [kernel |-> k, stride |-> s, padding |-> p, batch |-> b, chan |-> c,
   h_in |-> hi, h_out |-> ho, w_in |-> wi, w_out |-> wo]

NumelOut(o) == o.batch * o.chan * o.h_out * o.w_out
NumelIn(o) == o.batch * o.chan * o.h_in * o.w_in

\* idx % w_out, idx /= w_out, ... : <<b, c, oh, ow>> of a flat output index
DecodeOut(o, i) ==
  LET ow == i % o.w_out
      i1 == i \div o.w_out
      oh == i1 % o.h_out
      i2 == i1 \div o.h_out
      c  == i2 % o.chan
      i3 == i2 \div o.chan
      b  == i3 % o.batch
  IN  <<b, c, oh, ow>>

\* idx % w_in, idx /= w_in, ... : <<b, c, y, x>> of a flat input index
DecodeIn(o, i) ==
  LET x  == i % o.w_in
      i1 == i \div o.w_in
      y  == i1 % o.h_in
      i2 == i1 \div o.h_in
      c  == i2 % o.chan
      i3 == i2 \div o.chan
      b  == i3 % o.batch
  IN  <<b, c, y, x>>

\* b * strides[0] + c * strides[1] + h * strides[2] + w * strides[3]
StridedOffset(st, b, c, h, w) == b * st[1] + c * st[2] + h * st[3] + w * st[4]

\* FwdVisit with the padding region clamped to the border element instead of
\* skipped (replicate padding)
FwdVisit_ClampPadding(o, oh, ow, k1, k2) ==
  LET y_plus_p == oh * o.stride + k1
      x_plus_p == ow * o.stride + k2
      y == IF y_plus_p < o.padding THEN 0 ELSE y_plus_p - o.padding
      x == IF x_plus_p < o.padding THEN 0 ELSE x_plus_p - o.padding
  IN  IF y >= o.h_in \/ x >= o.w_in THEN <<FALSE, 0, 0>> ELSE <<TRUE, y, x>>

\* The forward loop body up to the load, at window offset (k1, k2) of output
\* (oh, ow): <<TRUE, y, x>> when the load is reached, <<FALSE, 0, 0>> on a continue.
FwdVisit(o, oh, ow, k1, k2) ==
  LET y_plus_p == oh * o.stride + k1
      x_plus_p == ow * o.stride + k2
  IN  IF y_plus_p < o.padding THEN <<FALSE, 0, 0>>
      ELSE LET y == y_plus_p - o.padding
           IN  IF y >= o.h_in THEN <<FALSE, 0, 0>>
               ELSE IF x_plus_p < o.padding THEN <<FALSE, 0, 0>>
               ELSE LET x == x_plus_p - o.padding
                    IN  IF x >= o.w_in THEN <<FALSE, 0, 0>>
                        ELSE <<TRUE, y, x>>

\* BwdVisit without the two "% op.stride != 0" continues
BwdVisit_NoStrideCheck(o, y, x, k1, k2) ==
  LET oh0 == y + o.padding
      ow0 == x + o.padding
  IN  IF oh0 < k1 \/ ow0 < k2 THEN <<FALSE, 0, 0>>
      ELSE LET oh == (oh0 - k1) \div o.stride
               ow == (ow0 - k2) \div o.stride
           IN  IF oh >= o.h_out \/ ow >= o.w_out THEN <<FALSE, 0, 0>>
               ELSE <<TRUE, oh, ow>>

\* The backward loop body up to the load, at window offset (k1, k2) of input
\* (y, x): <<TRUE, oh, ow>> when the load is reached, <<FALSE, 0, 0>> on a continue.
BwdVisit(o, y, x, k1, k2) ==
  LET oh0 == y + o.padding
      ow0 == x + o.padding
  IN  IF oh0 < k1 THEN <<FALSE, 0, 0>>
      ELSE LET oh1 == oh0 - k1
           IN  IF oh1 % o.stride # 0 THEN <<FALSE, 0, 0>>
               ELSE LET oh == oh1 \div o.stride
                    IN  IF oh >= o.h_out THEN <<FALSE, 0, 0>>
                        ELSE IF ow0 < k2 THEN <<FALSE, 0, 0>>
                        ELSE LET ow1 == ow0 - k2
                             IN  IF ow1 % o.stride # 0 THEN <<FALSE, 0, 0>>
                                 ELSE LET ow == ow1 \div o.stride
                                      IN  IF ow >= o.w_out THEN <<FALSE, 0, 0>>
                                          ELSE <<TRUE, oh, ow>>

\* for (k1 ...) for (k2 ...): the loads the forward loop of output (oh, ow)
\* reaches from iteration k = k1 * kernel + k2 on, as <<k1, k2, y, x>>, in order
RECURSIVE FwdLoop(_, _, _, _)
FwdLoop(o, oh, ow, k) ==
  IF k >= o.kernel * o.kernel THEN <<>>
  ELSE LET k1 == k \div o.kernel
           k2 == k % o.kernel
           v  == FwdVisit(o, oh, ow, k1, k2)
       IN  (IF v[1] THEN << <<k1, k2, v[2], v[3]>> >> ELSE <<>>)
             \o FwdLoop(o, oh, ow, k + 1)

\* the loads the backward loop of input (y, x) reaches, as <<k1, k2, oh, ow>>
RECURSIVE BwdLoop(_, _, _, _)
BwdLoop(o, y, x, k) ==
  IF k >= o.kernel * o.kernel THEN <<>>
  ELSE LET k1 == k \div o.kernel
           k2 == k % o.kernel
           v  == BwdVisit(o, y, x, k1, k2)
       IN  (IF v[1] THEN << <<k1, k2, v[2], v[3]>> >> ELSE <<>>)
             \o BwdLoop(o, y, x, k + 1)

\* tmp += vals[n], vals[n + 1], ... in loop order
RECURSIVE SumFrom(_, _, _)
SumFrom(vals, n, tmp) ==
  IF n > Len(vals) THEN tmp ELSE SumFrom(vals, n + 1, RAdd(tmp, vals[n]))

\* tmp = maxNonAtomic(tmp, vals[n]), ... in loop order
RECURSIVE MaxFrom(_, _, _)
MaxFrom(vals, n, tmp) ==
  IF n > Len(vals) THEN tmp ELSE MaxFrom(vals, n + 1, maxNonAtomic(tmp, vals[n]))

\* tmp = minNonAtomic(tmp, vals[n]), ... in loop order
RECURSIVE MinFrom(_, _, _)
MinFrom(vals, n, tmp) ==
  IF n > Len(vals) THEN tmp ELSE MinFrom(vals, n + 1, minNonAtomic(tmp, vals[n]))

\* inp[inp_i] of every load of the forward loop of flat output index i
FwdLoads(o, ist, buf, i) ==
  LET d  == DecodeOut(o, i)
      vs == FwdLoop(o, d[3], d[4], 0)
  IN  [n \in 1..Len(vs) |->
         buf[StridedOffset(ist, d[1], d[2], vs[n][3], vs[n][4])]]

\* avg_pool2d_forward dividing by the number of in-bounds window positions
avg_pool2d_forward_ValidCount(o, ist, buf, i) ==
  LET loads == FwdLoads(o, ist, buf, i)
  IN  IF Len(loads) = 0 THEN R(0) ELSE RDiv(SumFrom(loads, 1, R(0)), Len(loads))

\* the value avg_pool2d_forward stores to out[i]
avg_pool2d_forward(o, ist, buf, i) ==
  RDiv(SumFrom(FwdLoads(o, ist, buf, i), 1, R(0)), o.kernel * o.kernel)

\* the value max_pool2d_forward stores to out[i]
max_pool2d_forward(o, ist, buf, i) ==
  MaxFrom(FwdLoads(o, ist, buf, i), 1, NegInfinity)

\* the value min_pool2d_forward stores to out[i]
min_pool2d_forward(o, ist, buf, i) ==
  MinFrom(FwdLoads(o, ist, buf, i), 1, PosInfinity)

\* out_i of every load of the backward loop of flat input index i
BwdOffsets(o, ost, i) ==
  LET d  == DecodeIn(o, i)
      vs == BwdLoop(o, d[3], d[4], 0)
  IN  [n \in 1..Len(vs) |-> StridedOffset(ost, d[1], d[2], vs[n][3], vs[n][4])]

\* the index of the element the max / min backward kernels load as inp_v
InpVIndex(i) == i

\* the index of the element the forward kernels store their result to
OutStoreIndex(i) == i

\* every backward thread accumulating into element 0
GradInpIndex_Shared(i) == 0

\* the index of the element the backward kernels accumulate into
GradInpIndex(i) == i

\* the value avg_pool2d_backward adds to grad_inp[i]
avg_pool2d_backward(o, ost, gout, i) ==
  LET offs == BwdOffsets(o, ost, i)
  IN  RDiv(SumFrom([n \in 1..Len(offs) |-> gout[offs[n]]], 1, R(0)),
           o.kernel * o.kernel)

\* the value max_pool2d_backward adds to grad_inp[i]
max_pool2d_backward(o, ost, ibuf, obuf, gout, i) ==
  LET inp_v == ibuf[InpVIndex(i)]
      offs  == BwdOffsets(o, ost, i)
  IN  SumFrom([n \in 1..Len(offs) |->
                 IF obuf[offs[n]] = inp_v THEN gout[offs[n]] ELSE R(0)], 1, R(0))

\* the value min_pool2d_backward adds to grad_inp[i]
min_pool2d_backward(o, ost, ibuf, obuf, gout, i) ==
  LET inp_v == ibuf[InpVIndex(i)]
      offs  == BwdOffsets(o, ost, i)
  IN  SumFrom([n \in 1..Len(offs) |->
                 IF obuf[offs[n]] = inp_v THEN gout[offs[n]] ELSE R(0)], 1, R(0))

\* POOL_OP: the forward kernel of the launched pair
PoolForward(knd, o, ist, buf, i) ==
  CASE knd = "avg" -> avg_pool2d_forward(o, ist, buf, i)
    [] knd = "max" -> max_pool2d_forward(o, ist, buf, i)
    [] knd = "min" -> min_pool2d_forward(o, ist, buf, i)

\* POOL_OP: the backward kernel of the launched pair
PoolBackward(knd, o, ost, ibuf, obuf, gout, i) ==
  CASE knd = "avg" -> avg_pool2d_backward(o, ost, gout, i)
    [] knd = "max" -> max_pool2d_backward(o, ost, ibuf, obuf, gout, i)
    [] knd = "min" -> min_pool2d_backward(o, ost, ibuf, obuf, gout, i)

(***************************************************************************)
(* The pooling launches: a forward grid, then a backward grid.  Each grid  *)
(* holds ExtraThreads threads past the element count, as a launch rounded  *)
(* up to whole blocks does.                                                *)
(***************************************************************************)
FwdThreads(o) == 0..(NumelOut(o) + ExtraThreads - 1)
BwdThreads(o) == 0..(NumelIn(o) + ExtraThreads - 1)

\* strides of a dense (batch, chan, h, w) tensor: row-major, or with the two
\* spatial dimensions permuted
Strides(layout, c, h, w) ==
  IF layout = "contiguous" THEN <<c * h * w, h * w, w, 1>>
  ELSE <<c * h * w, h * w, 1, h>>

\* <<layout of inp, layout of out>>: both row-major, a permuted input view with
\* a row-major output, both permuted
LayoutPairs == {<<"contiguous", "contiguous">>, <<"permuted", "contiguous">>,
                <<"permuted", "permuted">>}

Pow2(n) == 2 ^ n

PoolInit ==
  /\ kind \in {"avg", "max", "min"}
  /\ \E k \in 1..MaxKernel, s \in 1..MaxStride, p \in 0..MaxPadding,
        c \in 1..MaxChan, hi \in 1..MaxIn, wi \in 1..MaxIn,
        ho \in 1..MaxOut, wo \in 1..MaxOut :
        /\ op = Pool2dOp(k, s, p, 1, c, hi, ho, wi, wo)
        /\ \E l \in LayoutPairs :
              /\ inp_strides = Strides(l[1], c, hi, wi)
              /\ out_strides = Strides(l[2], c, ho, wo)
  /\ inp \in [0..(NumelIn(op) - 1) -> {R(v) : v \in 0..MaxVal}]
  /\ out = [j \in 0..(NumelOut(op) - 1) |-> R(0)]
  /\ \E g \in 1..MaxGradBase :
        grad_out = [j \in 0..(NumelOut(op) - 1) |-> R(g * Pow2(j))]
  /\ grad_inp = [i \in 0..(NumelIn(op) - 1) |-> R(i + 1)]
  /\ grad_inp0 = grad_inp
  /\ fpc = [t \in FwdThreads(op) |-> "ready"]
  /\ bpc = [t \in BwdThreads(op) |-> "ready"]
  /\ breg = [t \in BwdThreads(op) |-> <<R(0), R(0)>>]
  /\ fvis = [t \in FwdThreads(op) |-> <<>>]
  /\ bvis = [t \in BwdThreads(op) |-> <<>>]
  /\ bwrote = [t \in BwdThreads(op) |-> {}]

ForwardDone == \A t \in FwdThreads(op) : fpc[t] = "done"
BackwardDone == \A t \in BwdThreads(op) : bpc[t] = "done"

\* a forward thread past the element count: if (i >= numel) return
ForwardReturn(t) ==
  /\ fpc[t] = "ready"
  /\ t >= NumelOut(op)
  /\ fpc' = [fpc EXCEPT ![t] = "done"]
  /\ UNCHANGED <<divVars, halfVars, kind, op, inp_strides, out_strides, inp, out, grad_out, grad_inp,
                 grad_inp0, bpc, breg, fvis, bvis, bwrote>>

\* a forward thread: the window loop, then the store out[i] = tmp
ForwardThread(t) ==
  /\ fpc[t] = "ready"
  /\ t < NumelOut(op)
  /\ out' = [out EXCEPT ![OutStoreIndex(t)] = PoolForward(kind, op, inp_strides, inp, t)]
  /\ fvis' = [fvis EXCEPT ![t] =
                LET d == DecodeOut(op, t) IN FwdLoop(op, d[3], d[4], 0)]
  /\ fpc' = [fpc EXCEPT ![t] = "done"]
  /\ UNCHANGED <<divVars, halfVars, kind, op, inp_strides, out_strides, inp, grad_out, grad_inp,
                 grad_inp0, bpc, breg, bvis, bwrote>>

\* a backward thread past the element count: if (i >= numel) return
BackwardReturn(t) ==
  /\ ForwardDone
  /\ bpc[t] = "ready"
  /\ t >= NumelIn(op)
  /\ bpc' = [bpc EXCEPT ![t] = "done"]
  /\ UNCHANGED <<divVars, halfVars, kind, op, inp_strides, out_strides, inp, out, grad_out, grad_inp,
                 grad_inp0, fpc, breg, fvis, bvis, bwrote>>

\* a backward thread: the window loop, then the load of grad_inp[i] += ...
BackwardLoad(t) ==
  /\ ForwardDone
  /\ bpc[t] = "ready"
  /\ t < NumelIn(op)
  /\ breg' = [breg EXCEPT ![t] =
                <<grad_inp[GradInpIndex(t)],
                  PoolBackward(kind, op, out_strides, inp, out, grad_out, t)>>]
  /\ bvis' = [bvis EXCEPT ![t] =
                LET d == DecodeIn(op, t) IN BwdLoop(op, d[3], d[4], 0)]
  /\ bpc' = [bpc EXCEPT ![t] = "read"]
  /\ UNCHANGED <<divVars, halfVars, kind, op, inp_strides, out_strides, inp, out, grad_out, grad_inp,
                 grad_inp0, fpc, fvis, bwrote>>

\* a backward thread: the store of grad_inp[i] += ...
BackwardStore(t) ==
  /\ bpc[t] = "read"
  /\ grad_inp' = [grad_inp EXCEPT ![GradInpIndex(t)] = RAdd(breg[t][1], breg[t][2])]
  /\ bwrote' = [bwrote EXCEPT ![t] = @ \cup {GradInpIndex(t)}]
  /\ bpc' = [bpc EXCEPT ![t] = "done"]
  /\ UNCHANGED <<divVars, halfVars, kind, op, inp_strides, out_strides, inp, out, grad_out,
                 grad_inp0, fpc, breg, fvis, bvis>>

PoolNext ==
  \/ \E t \in FwdThreads(op) : ForwardReturn(t)
  \/ \E t \in FwdThreads(op) : ForwardThread(t)
  \/ \E t \in BwdThreads(op) : BackwardReturn(t)
  \/ \E t \in BwdThreads(op) : BackwardLoad(t)
  \/ \E t \in BwdThreads(op) : BackwardStore(t)


(***************************************************************************)
(* binary_div_backward: one thread per flat logical index, two float       *)
(* atomicAdd calls per thread.                                             *)
(***************************************************************************)
MaxDim == 2
MaxLhs == 1
MaxRhs == 2

RMul(a, b) == RNorm(<<a[1] * b[1], a[2] * b[2]>>)
RNeg(a) == <<-a[1], a[2]>>
\* a / b for b # 0
RQuot(a, b) ==
  IF b[1] < 0 THEN RNorm(<<-(a[1] * b[2]), a[2] * (-b[1])>>)
  ELSE RNorm(<<a[1] * b[2], a[2] * b[1]>>)

\* cuda_utils.cuh: unravel i against dims from the innermost dimension outwards
\* with a running remainder, accumulating index * stride
RECURSIVE StridedIndexFrom(_, _, _, _, _)
StridedIndexFrom(idx, d, ds, st, acc) ==
  IF d = 0 THEN acc
  ELSE StridedIndexFrom(idx \div ds[d], d - 1, ds, st, acc + (idx % ds[d]) * st[d])

get_strided_index(i, num_dims, ds, st) == StridedIndexFrom(i, num_dims, ds, st, 0)

DivNumel == dims[1] * dims[2]
DivThreads == 0..(DivNumel + ExtraThreads - 1)

\* strides of a 2-d view: row-major, or broadcast along dimension 0 or 1
ViewStrides(view, ds) ==
  CASE view = "contiguous" -> <<ds[2], 1>>
    [] view = "broadcast0" -> <<0, 1>>
    [] view = "broadcast1" -> <<1, 0>>

\* number of storage elements behind a view
ViewSize(view, ds) ==
  CASE view = "contiguous" -> ds[1] * ds[2]
    [] view = "broadcast0" -> ds[2]
    [] view = "broadcast1" -> ds[1]

Views == {"contiguous", "broadcast0", "broadcast1"}

\* dfdx * go with dfdx = 1.0 / y
DivDfdxTimesGo(x, y, go) == RMul(RQuot(R(1), y), go)

\* dfdy * go with dfdy = -x / (y * y)
DivDfdyTimesGo(x, y, go) == RMul(RQuot(RNeg(x), RMul(y, y)), go)

\* a plain store in place of the atomic accumulate
atomicAdd_float_Store(buf, idx, v) == [buf EXCEPT ![idx] = v]

\* the hardware float atomicAdd(address, val): one indivisible read-add-write
atomicAdd_float(buf, idx, v) == [buf EXCEPT ![idx] = RAdd(@, v)]

DivInit ==
  /\ dims \in (1..MaxDim) \X (1..MaxDim)
  /\ \E vl \in Views, vr \in Views :
        /\ lhs_strides = ViewStrides(vl, dims)
        /\ rhs_strides = ViewStrides(vr, dims)
        /\ lhs \in [0..(ViewSize(vl, dims) - 1) -> {R(v) : v \in 0..MaxLhs}]
        /\ rhs \in [0..(ViewSize(vr, dims) - 1) -> {R(v) : v \in 1..MaxRhs}]
  /\ div_out_strides = ViewStrides("contiguous", dims)
  /\ div_grad_out = [j \in 0..(DivNumel - 1) |-> R(Pow2(j))]
  /\ grad_lhs = [j \in DOMAIN lhs |-> R(j + 1)]
  /\ grad_rhs = [j \in DOMAIN rhs |-> R(j + 1)]
  /\ grad_lhs0 = grad_lhs
  /\ grad_rhs0 = grad_rhs
  /\ dpc = [t \in DivThreads |-> "ready"]

DivIdle ==
  /\ dims = <<>> /\ lhs_strides = <<>> /\ rhs_strides = <<>> /\ div_out_strides = <<>>
  /\ lhs = <<>> /\ rhs = <<>> /\ div_grad_out = <<>>
  /\ grad_lhs = <<>> /\ grad_rhs = <<>> /\ grad_lhs0 = <<>> /\ grad_rhs0 = <<>>
  /\ dpc = <<>>

\* if (i >= numel) return
DivBackwardReturn(t) ==
  /\ dpc[t] = "ready"
  /\ t >= DivNumel
  /\ dpc' = [dpc EXCEPT ![t] = "done"]
  /\ UNCHANGED <<poolVars, halfVars, dims, lhs_strides, rhs_strides, div_out_strides, lhs, rhs,
                 div_grad_out, grad_lhs, grad_rhs, grad_lhs0, grad_rhs0>>

\* the loads and atomicAdd(grad_lhs + lhs_i, dfdx * go)
DivBackwardLhs(t) ==
  /\ dpc[t] = "ready"
  /\ t < DivNumel
  /\ LET lhs_i == get_strided_index(t, 2, dims, lhs_strides)
         rhs_i == get_strided_index(t, 2, dims, rhs_strides)
         out_i == get_strided_index(t, 2, dims, div_out_strides)
     IN  grad_lhs' = atomicAdd_float(grad_lhs, lhs_i,
                        DivDfdxTimesGo(lhs[lhs_i], rhs[rhs_i], div_grad_out[out_i]))
  /\ dpc' = [dpc EXCEPT ![t] = "lhs_added"]
  /\ UNCHANGED <<poolVars, halfVars, dims, lhs_strides, rhs_strides, div_out_strides, lhs, rhs,
                 div_grad_out, grad_rhs, grad_lhs0, grad_rhs0>>

\* atomicAdd(grad_rhs + rhs_i, dfdy * go)
DivBackwardRhs(t) ==
  /\ dpc[t] = "lhs_added"
  /\ LET lhs_i == get_strided_index(t, 2, dims, lhs_strides)
         rhs_i == get_strided_index(t, 2, dims, rhs_strides)
         out_i == get_strided_index(t, 2, dims, div_out_strides)
     IN  grad_rhs' = atomicAdd_float(grad_rhs, rhs_i,
                        DivDfdyTimesGo(lhs[lhs_i], rhs[rhs_i], div_grad_out[out_i]))
  /\ dpc' = [dpc EXCEPT ![t] = "done"]
  /\ UNCHANGED <<poolVars, halfVars, dims, lhs_strides, rhs_strides, div_out_strides, lhs, rhs,
                 div_grad_out, grad_lhs, grad_lhs0, grad_rhs0>>

DivNext ==
  \/ \E t \in DivThreads : DivBackwardReturn(t)
  \/ \E t \in DivThreads : DivBackwardLhs(t)
  \/ \E t \in DivThreads : DivBackwardRhs(t)

(***************************************************************************)
(* The __half atomicAdd shim for devices below compute capability 7.0.     *)
(* The two __half values share one aligned 32-bit word; the device is      *)
(* little-endian, so the half at the aligned address ((size_t) address & 2 *)
(* = 0) is the low 16 bits of the word.                                    *)
(***************************************************************************)
MaxHalfThreads == 2
MaxHalfInit == 1
MaxAddend == 2
MaxHalfValue == 40
MaxIter == 6

TwoTo16 == 65536

RECURSIVE Log2Floor(_)
Log2Floor(n) == IF n < 2 THEN 0 ELSE 1 + Log2Floor(n \div 2)

\* __half_as_ushort of the __half with integer value n (0 <= n < 2048):
\* sign 0, biased exponent e + 15, 10-bit mantissa
half_as_ushort(n) ==
  IF n = 0 THEN 0
  ELSE LET e == Log2Floor(n)
       IN  (e + 15) * 1024 + (n - 2 ^ e) * 2 ^ (10 - e)

\* __ushort_as_half: the integer value of the __half with these bits
ushort_as_half(bits) ==
  CHOOSE n \in 0..MaxHalfValue : half_as_ushort(n) = bits

\* a 16-bit load from the half at (address & 2) = a of the word
ReadShort(w, a) == IF a = 0 THEN w % TwoTo16 ELSE w \div TwoTo16

\* (size_t) address ^ 2
OtherAddr(a) == IF a = 0 THEN 2 ELSE 0

\* the hardware atomicCAS(unsigned int*, compare, val): <<word after, old>>
atomicCAS_uint(w, compare, val) == <<(IF w = compare THEN val ELSE w), w>>

\* atomicCAS(unsigned short*, compare, val) from new_whole on, other_short
\* having been loaded before: <<word after, returned short>>
atomicCAS_ushort(w, a, compare, val, other_short) ==
  LET aligned   == (a = 0)
      new_whole == IF aligned THEN val * TwoTo16 + other_short
                   ELSE other_short * TwoTo16 + val
      r         == atomicCAS_uint(w, compare, new_whole)
  IN  <<r[1], (IF aligned THEN r[2] \div TwoTo16 ELSE r[2] % TwoTo16)>>

\* the loop test inverted: while (assumed == old)
LoopAgain_Inverted(assumed, old) == assumed = old

\* the loop continues while assumed != old
LoopAgain(assumed, old) == assumed # old

HalfThreads == DOMAIN hpc

HalfInit ==
  /\ \E lo \in 0..MaxHalfInit, hi \in 0..MaxHalfInit :
        word = half_as_ushort(hi) * TwoTo16 + half_as_ushort(lo)
  /\ word0 = word
  /\ \E n \in 1..MaxHalfThreads :
        /\ haddr \in [1..n -> {0, 2}]
        /\ hval \in [1..n -> 1..MaxAddend]
        /\ hpc = [t \in 1..n |-> "start"]
        /\ hold = [t \in 1..n |-> 0]
        /\ hassumed = [t \in 1..n |-> 0]
        /\ hother = [t \in 1..n |-> 0]
        /\ hret = [t \in 1..n |-> 0]
        /\ hiter = [t \in 1..n |-> 0]
        /\ hsolo = [t \in 1..n |-> TRUE]

HalfIdle ==
  /\ word = 0 /\ word0 = 0 /\ haddr = <<>> /\ hval = <<>> /\ hpc = <<>>
  /\ hold = <<>> /\ hassumed = <<>> /\ hother = <<>> /\ hret = <<>>
  /\ hiter = <<>> /\ hsolo = <<>>

\* atomicAdd: unsigned short int old = *casted_address
HalfAddLoad(t) ==
  /\ hpc[t] = "start"
  /\ hold' = [hold EXCEPT ![t] = ReadShort(word, haddr[t])]
  /\ hpc' = [hpc EXCEPT ![t] = "call"]
  /\ UNCHANGED <<poolVars, divVars, word, word0, haddr, hval, hassumed, hother, hret,
                 hiter, hsolo>>

\* assumed = old, then atomicCAS's plain loads of my_short and other_short
HalfCasLoads(t) ==
  /\ hpc[t] = "call"
  /\ hiter[t] < MaxIter
  /\ hassumed' = [hassumed EXCEPT ![t] = hold[t]]
  /\ hother' = [hother EXCEPT ![t] = ReadShort(word, OtherAddr(haddr[t]))]
  /\ hiter' = [hiter EXCEPT ![t] = @ + 1]
  /\ hpc' = [hpc EXCEPT ![t] = "cas"]
  /\ UNCHANGED <<poolVars, divVars, word, word0, haddr, hval, hold, hret, hsolo>>

\* atomicCAS's 32-bit atomicCAS and return, then the loop test of atomicAdd
HalfCasExchange(t) ==
  /\ hpc[t] = "cas"
  /\ LET newval == half_as_ushort(hval[t] + ushort_as_half(hassumed[t]))
         r == atomicCAS_ushort(word, haddr[t], hassumed[t], newval, hother[t])
     IN  /\ word' = r[1]
         /\ hold' = [hold EXCEPT ![t] = r[2]]
         /\ hsolo' = [u \in HalfThreads |->
                        IF u # t /\ r[1] # word /\ hpc[u] \in {"call", "cas"}
                        THEN FALSE ELSE hsolo[u]]
         /\ IF LoopAgain(hassumed[t], r[2])
            THEN /\ hpc' = [hpc EXCEPT ![t] = "call"]
                 /\ hret' = hret
            ELSE /\ hpc' = [hpc EXCEPT ![t] = "done"]
                 /\ hret' = [hret EXCEPT ![t] = r[2]]
  /\ UNCHANGED <<poolVars, divVars, word0, haddr, hval, hassumed, hother, hiter>>

HalfStep(t) == HalfAddLoad(t) \/ HalfCasLoads(t) \/ HalfCasExchange(t)

HalfNext ==
  \/ \E t \in HalfThreads : HalfAddLoad(t)
  \/ \E t \in HalfThreads : HalfCasLoads(t)
  \/ \E t \in HalfThreads : HalfCasExchange(t)

PoolIdle ==
  /\ kind = "" /\ op = <<>> /\ inp_strides = <<>> /\ out_strides = <<>>
  /\ inp = <<>> /\ out = <<>> /\ grad_out = <<>> /\ grad_inp = <<>>
  /\ grad_inp0 = <<>> /\ fpc = <<>> /\ bpc = <<>> /\ breg = <<>>
  /\ fvis = <<>> /\ bvis = <<>> /\ bwrote = <<>>

vars == <<poolVars, divVars, halfVars>>

\* the pooling launches alone
InitPool == PoolInit /\ DivIdle /\ HalfIdle
SpecPool == InitPool /\ [][PoolNext]_vars

\* the binary_div_backward launch alone
InitDiv == DivInit /\ PoolIdle /\ HalfIdle
SpecDiv == InitDiv /\ [][DivNext]_vars

\* the __half atomicAdd calls alone
InitHalf == HalfInit /\ PoolIdle /\ DivIdle
SpecHalf == InitHalf /\ [][HalfNext]_vars

\* the same under a scheduler that lets every thread with a step to take
\* eventually take one
SpecHalfFair ==
  SpecHalf /\ \A t \in 1..MaxHalfThreads : WF_vars(t \in HalfThreads /\ HalfStep(t))

(***************************************************************************)
(* Reference definitions used by the pooling properties: signed            *)
(* coordinates, sets instead of loops.                                     *)
(***************************************************************************)
Range(q) == {q[n] : n \in 1..Len(q)}

RECURSIVE SumPairs(_)
SumPairs(S) ==
  IF S = {} THEN 0
  ELSE LET e == CHOOSE e \in S : TRUE IN e[2] + SumPairs(S \ {e})

\* flat index of output position (b, c, oh, ow): the forward thread that computes it
FlatOut(o, b, c, oh, ow) == ((b * o.chan + c) * o.h_out + oh) * o.w_out + ow

\* window offsets of output (oh, ow) whose signed input coordinates are in bounds
RefWindow(o, oh, ow) ==
  {kk \in (0..(o.kernel - 1)) \X (0..(o.kernel - 1)) :
     /\ oh * o.stride + kk[1] - o.padding \in 0..(o.h_in - 1)
     /\ ow * o.stride + kk[2] - o.padding \in 0..(o.w_in - 1)}

RefY(o, oh, kk) == oh * o.stride + kk[1] - o.padding
RefX(o, ow, kk) == ow * o.stride + kk[2] - o.padding

\* the input element of window offset kk of output position d = <<b, c, oh, ow>>
RefInp(o, d, kk) ==
  inp[StridedOffset(inp_strides, d[1], d[2], RefY(o, d[3], kk), RefX(o, d[4], kk))]

\* output positions <<oh, ow>> whose window covers input (y, x)
RefCovering(o, y, x) ==
  {q \in (0..(o.h_out - 1)) \X (0..(o.w_out - 1)) :
     \E kk \in RefWindow(o, q[1], q[2]) :
        RefY(o, q[1], kk) = y /\ RefX(o, q[2], kk) = x}

\* C1: the backward loop of input (y, x) reaches output (oh, ow) at window
\* offset (k1, k2) exactly when the forward loop of (oh, ow) reaches (y, x) at
\* the same (k1, k2); no backward loop reaches the same output twice.
C1_IndexMapsTranspose ==
  \A ti \in 0..(NumelIn(op) - 1) :
    bpc[ti] # "ready" =>
      LET di == DecodeIn(op, ti)
      IN  /\ \A to \in 0..(NumelOut(op) - 1) :
                LET do == DecodeOut(op, to)
                IN  (do[1] = di[1] /\ do[2] = di[2]) =>
                      \A k1 \in 0..(op.kernel - 1), k2 \in 0..(op.kernel - 1) :
                         (<<k1, k2, do[3], do[4]>> \in Range(bvis[ti]))
                           <=> (<<k1, k2, di[3], di[4]>> \in Range(fvis[to]))
          /\ \A m, n \in 1..Len(bvis[ti]) :
                (bvis[ti][m][3] = bvis[ti][n][3] /\ bvis[ti][m][4] = bvis[ti][n][4])
                  => m = n
          /\ \A n \in 1..Len(bvis[ti]) :
                bvis[ti][n][3] < op.h_out /\ bvis[ti][n][4] < op.w_out

\* C1 witness: a finished backward loop that reached at least two outputs and
\* skipped at least one window offset, with padding and a kernel of 2
C1_Witness ==
  /\ op.padding > 0 /\ op.kernel = 2
  /\ \E ti \in 0..(NumelIn(op) - 1) :
        bpc[ti] = "done" /\ Len(bvis[ti]) >= 2 /\ Len(bvis[ti]) < 4

\* C2: avg_pool2d_forward stores (sum of inp over the in-bounds window
\* positions, by signed coordinates) / (kernel * kernel).
C2_AvgForwardReference ==
  kind = "avg" =>
    \A t \in 0..(NumelOut(op) - 1) :
      fpc[t] = "done" =>
        LET d == DecodeOut(op, t)
            W == RefWindow(op, d[3], d[4])
        IN  out[t] = RNorm(<<SumPairs({<<kk, RefInp(op, d, kk)[1]>> : kk \in W}),
                             op.kernel * op.kernel>>)

\* C2 witness: a stored average whose window lost positions to the padding
\* and still summed something
C2_Witness ==
  /\ kind = "avg" /\ op.padding > 0 /\ op.kernel = 2
  /\ \E t \in 0..(NumelOut(op) - 1) :
        LET d == DecodeOut(op, t)
        IN  /\ fpc[t] = "done"
            /\ Cardinality(RefWindow(op, d[3], d[4])) \in 1..3
            /\ out[t] # R(0)

AllOnes == \A i \in DOMAIN inp : inp[i] = R(1)

\* out = floor((in + 2 * padding - kernel) / stride) + 1
FormulaOut(in, o) == (in + 2 * o.padding - o.kernel) \div o.stride + 1

FormulaConsistent(o) ==
  /\ o.h_in + 2 * o.padding >= o.kernel
  /\ o.w_in + 2 * o.padding >= o.kernel
  /\ o.h_out = FormulaOut(o.h_in, o)
  /\ o.w_out = FormulaOut(o.w_in, o)

\* C3: on an all-ones input, avg forward stores 1.0 everywhere when padding = 0
\* and the output size follows the formula; an output whose window reaches past
\* the input (into the padding) is below 1.0, and with padding > 0 there is one.
C3_AvgAllOnes ==
  (kind = "avg" /\ AllOnes /\ ForwardDone) =>
    /\ (op.padding = 0 /\ FormulaConsistent(op)) =>
          \A t \in 0..(NumelOut(op) - 1) : out[t] = R(1)
    /\ \A t \in 0..(NumelOut(op) - 1) :
          LET d == DecodeOut(op, t)
          IN  IF Cardinality(RefWindow(op, d[3], d[4])) < op.kernel * op.kernel
              THEN RLess(out[t], R(1))
              ELSE out[t] = R(1)
    /\ op.padding > 0 => \E t \in 0..(NumelOut(op) - 1) : RLess(out[t], R(1))

\* C3 witness: all-ones input, padding 1, formula-consistent sizes, an output
\* of 1/4
C3_Witness ==
  /\ kind = "avg" /\ AllOnes /\ ForwardDone
  /\ op.padding = 1 /\ FormulaConsistent(op)
  /\ \E t \in 0..(NumelOut(op) - 1) : out[t] = <<1, 4>>

\* max (min) of the in-bounds window of output position d, by signed coordinates
RefExtreme(knd, o, d) ==
  LET vals == {RefInp(o, d, kk) : kk \in RefWindow(o, d[3], d[4])}
  IN  IF vals = {} THEN (IF knd = "max" THEN NegInfinity ELSE PosInfinity)
      ELSE IF knd = "max" THEN CHOOSE v \in vals : \A w \in vals : ~RLess(v, w)
      ELSE CHOOSE v \in vals : \A w \in vals : ~RLess(w, v)

\* the gradient a tie policy "every holder of the max (min) gets the full
\* grad_out" routes to input position d = <<b, c, y, x>>
RefTieGradient(knd, o, d) ==
  LET v == inp[StridedOffset(inp_strides, d[1], d[2], d[3], d[4])]
      Q == {q \in RefCovering(o, d[3], d[4]) :
              RefExtreme(knd, o, <<d[1], d[2], q[1], q[2]>>) = v}
  IN  SumPairs({<<q, grad_out[StridedOffset(out_strides, d[1], d[2], q[1], q[2])][1]>>
                  : q \in Q})

\* C4: after max (min) forward and backward, the gradient of every input
\* position has grown by the full grad_out of every output whose window holds
\* it and whose max (min) it equals, and by nothing else.
C4_TiesGetFullGradient ==
  (kind \in {"max", "min"} /\ BackwardDone) =>
    \A i \in 0..(NumelIn(op) - 1) :
      LET d   == DecodeIn(op, i)
          off == StridedOffset(inp_strides, d[1], d[2], d[3], d[4])
      IN  grad_inp[off] = RAdd(grad_inp0[off], R(RefTieGradient(kind, op, d)))

\* C4 restricted to row-major strides (not the claim: the claim covers any strides)
C4_Contiguous ==
  (inp_strides = Strides("contiguous", op.chan, op.h_in, op.w_in)
     /\ out_strides = Strides("contiguous", op.chan, op.h_out, op.w_out))
    => C4_TiesGetFullGradient

\* C6: backward thread i stores to grad_inp[i] only, a thread past the element
\* count stores nothing, and in every interleaving of the loads and stores
\* grad_inp[i] is its prior value until thread i has stored and the prior value
\* plus thread i's contribution from then on.
C6_BackwardOwnsItsElement ==
  /\ \A t \in BwdThreads(op) :
        /\ bwrote[t] \subseteq {t}
        /\ t >= NumelIn(op) => bwrote[t] = {}
  /\ \A i \in 0..(NumelIn(op) - 1) :
        grad_inp[i] =
          IF bpc[i] = "done"
          THEN RAdd(grad_inp0[i],
                    PoolBackward(kind, op, out_strides, inp, out, grad_out, i))
          ELSE grad_inp0[i]

\* C6 witness: one thread has stored a nonzero contribution while another is
\* between its load and its store
C6_Witness ==
  \E t1, t2 \in 0..(NumelIn(op) - 1) :
    /\ t1 # t2
    /\ bpc[t1] = "done" /\ bpc[t2] = "read"
    /\ grad_inp[t1] # grad_inp0[t1]
    /\ breg[t2][2] # R(0)

\* C10: the element backward loads as inp_v is the element forward loaded for
\* that input position, and the out / grad_out element backward loads for an
\* output position is the element forward stored for it.
C10_SameStorageElements ==
  \A t \in 0..(NumelIn(op) - 1) :
    bpc[t] # "ready" =>
      LET d == DecodeIn(op, t)
      IN  /\ InpVIndex(t) = StridedOffset(inp_strides, d[1], d[2], d[3], d[4])
          /\ \A n \in 1..Len(bvis[t]) :
                StridedOffset(out_strides, d[1], d[2], bvis[t][n][3], bvis[t][n][4])
                  = OutStoreIndex(FlatOut(op, d[1], d[2], bvis[t][n][3], bvis[t][n][4]))

(***************************************************************************)
(* binary_div_backward                                                     *)
(***************************************************************************)
RECURSIVE SumRatPairs(_)
SumRatPairs(S) ==
  IF S = {} THEN R(0)
  ELSE LET e == CHOOSE e \in S : TRUE IN RAdd(e[2], SumRatPairs(S \ {e}))

\* row-major unravel of flat index i of the 2-d shape, dotted with the strides
RefOffset(i, st) == (i \div dims[2]) * st[1] + (i % dims[2]) * st[2]

RefDfdx(i) ==
  RMul(RQuot(R(1), rhs[RefOffset(i, rhs_strides)]),
       div_grad_out[RefOffset(i, div_out_strides)])

RefDfdy(i) ==
  LET x == lhs[RefOffset(i, lhs_strides)]
      y == rhs[RefOffset(i, rhs_strides)]
  IN  RMul(RQuot(RNeg(x), RMul(y, y)), div_grad_out[RefOffset(i, div_out_strides)])

DivDone == \A t \in DivThreads : dpc[t] = "done"

\* C5: in every interleaving, grad_rhs at an offset is its prior value plus the
\* sum of (-x / y^2) * grad_out over the threads resolving to it that have made
\* their second atomicAdd, and grad_lhs likewise with (1 / y) * grad_out over
\* the threads that have made their first; once all threads have run, over all
\* flat indices.
C5_DivBackwardAccumulates ==
  /\ \A r \in DOMAIN grad_rhs :
        grad_rhs[r] =
          RAdd(grad_rhs0[r],
               SumRatPairs({<<i, RefDfdy(i)>> :
                  i \in {j \in 0..(DivNumel - 1) :
                           dpc[j] = "done" /\ RefOffset(j, rhs_strides) = r}}))
  /\ \A l \in DOMAIN grad_lhs :
        grad_lhs[l] =
          RAdd(grad_lhs0[l],
               SumRatPairs({<<i, RefDfdx(i)>> :
                  i \in {j \in 0..(DivNumel - 1) :
                           dpc[j] # "ready" /\ RefOffset(j, lhs_strides) = l}}))

\* C5 witness: all threads have run on a 2 x 2 shape with rhs broadcast over
\* dimension 0, and the shared rhs gradient moved
C5_Witness ==
  /\ dims = <<2, 2>> /\ rhs_strides = <<0, 1>>
  /\ DivDone
  /\ \A r \in DOMAIN grad_rhs : grad_rhs[r] # grad_rhs0[r]

(***************************************************************************)
(* The __half atomicAdd shim                                               *)
(***************************************************************************)
HalfDone == \A t \in HalfThreads : hpc[t] = "done"

ThreadsOn(a) == {t \in HalfThreads : haddr[t] = a}

\* C7: once every call has returned, each half holds its initial value plus
\* the values added to it, and the calls on one address returned, in some
\* order, the values the address held before each addition.
C7_ShimIsAtomicAdd ==
  HalfDone =>
    \A a \in {0, 2} :
      LET T     == ThreadsOn(a)
          init  == ushort_as_half(ReadShort(word0, a))
      IN  /\ ReadShort(word, a)
                = half_as_ushort(init + SumPairs({<<t, hval[t]>> : t \in T}))
          /\ \E ord \in [T -> 1..Cardinality(T)] :
                /\ \A t, u \in T : ord[t] = ord[u] => t = u
                /\ \A t \in T :
                      hret[t] = half_as_ushort(
                        init + SumPairs({<<u, hval[u]>> : u \in {v \in T : ord[v] < ord[t]}}))

\* C8: no step of a call changes the other half of the word.
C8_NeighbourUnchanged ==
  [][\A t \in HalfThreads :
       (hpc[t] = "cas" /\ hpc'[t] # "cas") =>
          ReadShort(word', OtherAddr(haddr[t])) = ReadShort(word, OtherAddr(haddr[t]))]_vars

\* C9: under fair scheduling every call returns, and a call during which no
\* other thread stored to the word runs its loop at most three times.
C9_LoopTerminates ==
  /\ <>HalfDone
  /\ [](\A t \in HalfThreads : hsolo[t] => hiter[t] <= 3)

\* C9 witness: two calls on the two halves of one word have both returned, one
\* of them after more than one iteration
C9_Witness ==
  /\ HalfDone
  /\ \E t, u \in HalfThreads : haddr[t] = 0 /\ haddr[u] = 2 /\ hiter[t] > 1

====
